---- MODULE Spec2Model ----
(***************************************************************************)
(* A model of the clp crate (src/src/lib.rs): the slide! macro, which runs *)
(* crossterm's execute! over Clear, the supplied commands and a trailing   *)
(* WaitForInteraction, and the four commands of the crate:                 *)
(* TypewriterPrint, TypewriterPrintStyledContent, WaitForInteraction and   *)
(* WaitFor.  The terminal (raw-mode flag, pending input events), the       *)
(* line-buffered standard output stream and the clock are the environment. *)
(* Every fallible call is a separate step that may succeed or fail.        *)
(***************************************************************************)
EXTENDS Integers, Sequences, FiniteSets, TLC

\* ---------------------------------------------------------------- bounds
MaxActions == 2      \* commands supplied to one slide! invocation
MaxLen == 2          \* characters in a content string
MaxPending == 2      \* input events waiting in the terminal's queue

Alphabet == {"m", "NL"}        \* content characters ("NL" is a line feed)
Durations == {5, 50}           \* milliseconds
Styles == {"plain", "bold"}
Errs == {"E1", "E2"}           \* distinct std::io::Error values

VARIABLES
    slide,      \* the commands given to slide!, in order
    raw,        \* the terminal's raw-mode flag
    input,      \* input events not yet read
    buf,        \* standard output: written but not yet flushed
    term,       \* standard output: what has reached the terminal
    idx,        \* position in the command chain of execute!
    pc,         \* position inside the command being rendered
    chars,      \* the characters the current paced command iterates over
    ci,         \* index into chars of the current loop iteration
    chain,      \* the Result carried along the and_then chain of queue!
    result,     \* what slide! returned to its caller (NoResult before that)
    panicMsg,   \* the message of the panic that ended the call, or ""
    trace,      \* start / return of every write_ansi call, in order
    sleeps,     \* durations slept by the command at idx, in order
    slept,      \* total time slept since slide! was called
    startLen,   \* characters written to the sink before the command at idx
    fail,       \* the first failing call: [at, call, err], or NoFail
    lastRead,   \* the event event::read() returned last, or NoEvent
    keys,       \* qualifying key events read by this invocation so far
    other       \* a second invocation of slide! on the same terminal

vars == <<slide, raw, input, buf, term, idx, pc, chars, ci, chain, result,
          panicMsg, trace, sleeps, slept, startLen, fail, lastRead,
          keys, other>>

\* ------------------------------------------------------------ sequences
RECURSIVE SeqsUpTo(_, _)
SeqsUpTo(S, n) ==
    IF n = 0 THEN {<<>>}
    ELSE LET shorter == SeqsUpTo(S, n - 1)
         IN  shorter \cup {Append(s, x) : s \in {t \in shorter : Len(t) = n - 1}, x \in S}

Repeat(x, n) == [i \in 1..n |-> x]

RECURSIVE Flatten(_)
Flatten(ss) == IF ss = <<>> THEN <<>> ELSE Head(ss) \o Flatten(Tail(ss))

\* ------------------------------------------------------------- commands
\* The commands a slide is made of.  Clear and the passthrough print are
\* crossterm's; the other four are the crate's.
ClearAll == [kind |-> "Clear"]
PrintCmd(s) == [kind |-> "Print", content |-> s]
TypewriterPrint(s, d) == [kind |-> "TypewriterPrint", content |-> s, dur |-> d]
TypewriterPrintStyledContent(st, s, d) ==
    [kind |-> "TypewriterPrintStyledContent", style |-> st, content |-> s, dur |-> d]
WaitForInteraction == [kind |-> "WaitForInteraction"]
WaitFor(d) == [kind |-> "WaitFor", dur |-> d]

Contents == SeqsUpTo(Alphabet, MaxLen)

Actions ==
    {PrintCmd(s) : s \in Contents}
    \cup {TypewriterPrint(s, d) : s \in Contents, d \in Durations}
    \cup {TypewriterPrintStyledContent(st, s, d) :
            st \in Styles, s \in Contents, d \in Durations}
    \cup {WaitForInteraction}
    \cup {WaitFor(d) : d \in Durations}

\* Slides of several commands are drawn from a short catalogue (Spec); a
\* slide of one command ranges over every content, style and duration
\* (SpecRender).
ShortActions ==
    {PrintCmd(<<"m">>), TypewriterPrint(<<"m">>, 5),
     TypewriterPrintStyledContent("plain", <<"m">>, 5),
     WaitForInteraction, WaitFor(50)}

Slides == SeqsUpTo(ShortActions, MaxActions)

SingleActionSlides == {<<a>> : a \in Actions}

\* Mutants of Commands: the trailing wait left out; the clear left out.
Commands_no_trailing_wait(s) == <<ClearAll>> \o s
Commands_no_clear(s) == s \o <<WaitForInteraction>>

\* slide!: execute!(stdout(), Clear(ClearType::All), $($command,)* WaitForInteraction)
Commands(s) == <<ClearAll>> \o s \o <<WaitForInteraction>>

\* --------------------------------------------------------------- events
\* crossterm::event::Event values: key events with their code, and one
\* event that is not a key event.
KeyEvent(code) == [type |-> "Key", code |-> code]
Events ==
    {KeyEvent(c) : c \in {"Enter", "Right", "Char( )", "Char(q)"}}
    \cup {[type |-> "Resize"]}

\* The qualifying keys: Enter, Right-arrow and Space.
Qualifying(e) ==
    e \in {KeyEvent("Enter"), KeyEvent("Right"), KeyEvent("Char( )")}

\* Mutant of BreaksLoop: any key event ends the loop.
BreaksLoop_any_key(e) == e.type = "Key"

\* if let Event::Key(key) = .. { if let KeyCode::Enter | KeyCode::Right
\*                                      | KeyCode::Char(' ') = key.code { break } }
BreaksLoop(e) ==
    /\ e.type = "Key"
    /\ e.code \in {"Enter", "Right", "Char( )"}

\* ------------------------------------------------------------ rendering
\* The escape sequence crossterm writes before and after styled content
\* (SetAttributes(..) before, ResetColor after); none for the default style.
StylePrefix(st) ==
    IF st = "bold" THEN <<"ESC", "[", "1", "m">> ELSE <<>>

StyleSuffix(st) ==
    IF st = "plain" THEN <<>> ELSE <<"ESC", "[", "0", "m">>

\* What PrintStyledContent writes for content s of style st; it is also the
\* Display form of a StyledContent, hence its to_string().
StyledToString(st, s) == StylePrefix(st) \o s \o StyleSuffix(st)

\* Mutant of CharStylize: every character is given the bold attribute.
CharStylize_bold(c) == [style |-> "bold", content |-> <<c>>]

\* char.stylize(): a char becomes styled content of the default style.
CharStylize(c) == [style |-> "plain", content |-> <<c>>]

\* self.0.to_string().chars() of TypewriterPrint
TypewriterPrintChars(cmd) == cmd.content

\* self.0.to_string().chars() of TypewriterPrintStyledContent
TypewriterPrintStyledContentChars(cmd) == StyledToString(cmd.style, cmd.content)

\* What the styled command writes for one element of its character loop.
StyledCharOutput(c) ==
    LET sc == CharStylize(c) IN StyledToString(sc.style, sc.content)

\* What a terminal shows of a character stream: escape sequences
\* (ESC .. m) are interpreted, everything else is displayed.
RECURSIVE StripFrom(_, _)
StripFrom(s, inEsc) ==
    IF s = <<>> THEN <<>>
    ELSE IF inEsc THEN StripFrom(Tail(s), Head(s) # "m")
    ELSE IF Head(s) = "ESC" THEN StripFrom(Tail(s), TRUE)
    ELSE <<Head(s)>> \o StripFrom(Tail(s), FALSE)

StripStyle(s) == StripFrom(s, FALSE)

\* -------------------------------------------------------------- results
NoResult == [kind |-> "none"]
Ok == [kind |-> "ok"]
Err(e) == [kind |-> "err", err |-> e]
NoFail == [at |-> 0, call |-> "", err |-> ""]
NoEvent == [type |-> "none"]

\* The escape sequence of Clear(ClearType::All), as one token.
ClearSeq == <<"CSI2J">>

\* ------------------------------------------------------- standard output
\* Standard output is line buffered: a write holding a line feed sends
\* everything up to the last line feed to the terminal, the rest waits.
LastNL(s) ==
    LET at == {i \in 1..Len(s) : s[i] = "NL"}
    IN  IF at = {} THEN 0 ELSE CHOOSE i \in at : \A j \in at : j <= i

Written == term \o buf

SinkWrite(s) ==
    LET all == buf \o s
        n == LastNL(all)
    IN  IF LastNL(s) = 0
        THEN /\ buf' = all
             /\ term' = term
        ELSE /\ term' = term \o SubSeq(all, 1, n)
             /\ buf' = SubSeq(all, n + 1, Len(all))

SinkFlush ==
    /\ term' = term \o buf
    /\ buf' = <<>>

\* ---------------------------------------------------------------- state
\* The second invocation before it is called.
OtherIdle == [pc |-> "idle", atStart |-> "", atEnd |-> ""]

InitWith(slides) ==
    /\ slide \in slides
    /\ raw \in BOOLEAN
    /\ input = <<>>
    /\ buf = <<>>
    /\ term = <<>>
    /\ idx = 1
    /\ pc = "queue"
    /\ chars = <<>>
    /\ ci = 0
    /\ chain = Ok
    /\ result = NoResult
    /\ panicMsg = ""
    /\ trace = <<>>
    /\ sleeps = <<>>
    /\ slept = 0
    /\ startLen = 0
    /\ fail = NoFail
    /\ lastRead = NoEvent
    /\ keys = 0
    /\ other = OtherIdle

Init == InitWith(Slides)

InitRender == InitWith(SingleActionSlides)

\* slide! called with raw mode disabled, respectively enabled.
InitRawOff == Init /\ ~raw

InitRawOn == Init /\ raw

Cmds == Commands(slide)
Cur == Cmds[idx]

\* Mutant of Queued: the chain goes on after an Err.
Queued_after_err(kind) ==
    /\ pc = "queue"
    /\ idx <= Len(Commands(slide))
    /\ Commands(slide)[idx].kind = kind

\* A link of the and_then chain of queue! whose closure is called: the
\* chain carries Ok so far and the command at idx is of the given kind.
Queued(kind) ==
    /\ pc = "queue"
    /\ idx <= Len(Cmds)
    /\ chain = Ok
    /\ Cur.kind = kind

In(kind, at) ==
    /\ pc = at
    /\ Cur.kind = kind

StartEv == [ev |-> "start", cmd |-> Cur]
ReturnEv(r) == [ev |-> "return", res |-> r]

\* write_ansi returns r (evs are the trace events of the step): the chain
\* goes on to the next link carrying r.
ReturnWith(r, evs) ==
    /\ pc' = "queue"
    /\ idx' = idx + 1
    /\ chain' = r
    /\ trace' = trace \o evs \o <<ReturnEv(r)>>

\* `?` on a failed write to the sink: write_ansi returns the error.
WriteFails(e, evs) ==
    /\ ReturnWith(Err(e), evs)
    /\ fail' = [at |-> idx, call |-> "write", err |-> e]

\* .expect(msg) on a failed call: the thread panics and unwinds out of slide!.
Panic(msg, call, e, evs) ==
    /\ pc' = "panicked"
    /\ panicMsg' = msg
    /\ fail' = [at |-> idx, call |-> call, err |-> e]
    /\ trace' = trace \o evs
    /\ UNCHANGED <<idx, chain, result>>

\* ------------------------------------------------- crossterm's commands
\* A command of crossterm that writes one string to the sink.
Passthrough(out) ==
    /\ sleeps' = <<>>
    /\ startLen' = Len(Written)
    /\ \/ /\ SinkWrite(out)
          /\ ReturnWith(Ok, <<StartEv>>)
          /\ UNCHANGED fail
       \/ /\ \E e \in Errs : WriteFails(e, <<StartEv>>)
          /\ UNCHANGED <<buf, term>>
    /\ UNCHANGED <<slide, other, keys, raw, input, chars, ci, result, panicMsg, slept, lastRead>>

Clear_write_ansi ==
    /\ Queued("Clear")
    /\ Passthrough(ClearSeq)

Print_write_ansi ==
    /\ Queued("Print")
    /\ Passthrough(Cur.content)

\* ------------------------------------------------- steps of the commands
\* Mutant of FlushExpect: `?` in place of expect, the error is returned.
FlushExpect_propagates(evs, next) ==
    /\ \/ /\ SinkFlush
          /\ pc' = next
          /\ trace' = trace \o evs
          /\ UNCHANGED <<idx, chain, result, panicMsg, fail>>
       \/ /\ \E e \in Errs :
               /\ ReturnWith(Err(e), evs)
               /\ fail' = [at |-> idx, call |-> "flush", err |-> e]
          /\ UNCHANGED <<buf, term, result, panicMsg>>
    /\ UNCHANGED <<slide, other, keys, raw, input, chars, ci, slept, lastRead>>

\* stdout().flush().expect("standard output stream should flush")
FlushExpect(evs, next) ==
    /\ \/ /\ SinkFlush
          /\ pc' = next
          /\ trace' = trace \o evs
          /\ UNCHANGED <<idx, chain, result, panicMsg, fail>>
       \/ /\ \E e \in Errs : Panic("standard output stream should flush", "flush", e, evs)
          /\ UNCHANGED <<buf, term>>
    /\ UNCHANGED <<slide, other, keys, raw, input, chars, ci, slept, lastRead>>

\* Mutants of RawQueryBefore: the test is inverted; the test is left out.
RawQueryBefore_inverted ==
    /\ \/ /\ pc' = IF raw THEN "enable" ELSE "block"
          /\ UNCHANGED <<idx, chain, result, panicMsg, fail, trace>>
       \/ \E e \in Errs : Panic("should check if raw mode is enabled", "query", e, <<>>)
    /\ UNCHANGED <<slide, other, keys, raw, input, buf, term, chars, ci, sleeps, slept, startLen, lastRead>>

RawQueryBefore_always_enables ==
    /\ \/ /\ pc' = "enable"
          /\ UNCHANGED <<idx, chain, result, panicMsg, fail, trace>>
       \/ \E e \in Errs : Panic("should check if raw mode is enabled", "query", e, <<>>)
    /\ UNCHANGED <<slide, other, keys, raw, input, buf, term, chars, ci, sleeps, slept, startLen, lastRead>>

\* if !is_raw_mode_enabled().expect(..) { enable_raw_mode ... }: the query
RawQueryBefore ==
    /\ \/ /\ pc' = IF ~raw THEN "enable" ELSE "block"
          /\ UNCHANGED <<idx, chain, result, panicMsg, fail, trace>>
       \/ \E e \in Errs : Panic("should check if raw mode is enabled", "query", e, <<>>)
    /\ UNCHANGED <<slide, other, keys, raw, input, buf, term, chars, ci, sleeps, slept, startLen, lastRead>>

\* enable_raw_mode().expect("raw mode should enable")
EnableExpect ==
    /\ \/ /\ raw' = TRUE
          /\ pc' = "block"
          /\ UNCHANGED <<idx, chain, result, panicMsg, fail, trace>>
       \/ /\ \E e \in Errs : Panic("raw mode should enable", "enable", e, <<>>)
          /\ UNCHANGED raw
    /\ UNCHANGED <<slide, other, keys, input, buf, term, chars, ci, sleeps, slept, startLen, lastRead>>

\* Mutant of Sleep: the sleep returns at once, no time passes.
Sleep_skipped(d) ==
    /\ sleeps' = Append(sleeps, d)
    /\ pc' = "query2"
    /\ UNCHANGED <<slide, other, keys, raw, input, buf, term, idx, chars, ci, chain, result,
                   panicMsg, trace, startLen, fail, lastRead, slept>>

\* sleep(d)
Sleep(d) ==
    /\ sleeps' = Append(sleeps, d)
    /\ slept' = slept + d
    /\ pc' = "query2"
    /\ UNCHANGED <<slide, other, keys, raw, input, buf, term, idx, chars, ci, chain, result,
                   panicMsg, trace, startLen, fail, lastRead>>

\* Mutant of NextChar: the loop stops one character early.
NextChar_stops_early ==
    IF ci + 1 < Len(chars)
    THEN /\ ci' = ci + 1
         /\ pc' = "write"
         /\ UNCHANGED <<idx, chain, trace>>
    ELSE /\ ReturnWith(Ok, <<>>)
         /\ UNCHANGED ci

\* The end of an iteration of the character loop: the next character, or
\* Ok(()) after the last one.
NextChar ==
    IF ci < Len(chars)
    THEN /\ ci' = ci + 1
         /\ pc' = "write"
         /\ UNCHANGED <<idx, chain, trace>>
    ELSE /\ ReturnWith(Ok, <<>>)
         /\ UNCHANGED ci

\* Ok(()) of a command without a loop.
Done ==
    /\ ReturnWith(Ok, <<>>)
    /\ UNCHANGED ci

\* Mutant of RawQueryAfter: the test is inverted.
RawQueryAfter_inverted(after) ==
    /\ \/ /\ IF ~raw
             THEN /\ pc' = "disable"
                  /\ UNCHANGED <<idx, chain, trace, ci>>
             ELSE after
          /\ UNCHANGED <<result, panicMsg, fail>>
       \/ /\ \E e \in Errs : Panic("should check if raw mode is enabled", "query", e, <<>>)
          /\ UNCHANGED ci
    /\ UNCHANGED <<slide, other, keys, raw, input, buf, term, chars, sleeps, slept, startLen, lastRead>>

\* if is_raw_mode_enabled().expect(..) { disable_raw_mode ... }: the query;
\* after is what follows the if (NextChar or Done).
RawQueryAfter(after) ==
    /\ \/ /\ IF raw
             THEN /\ pc' = "disable"
                  /\ UNCHANGED <<idx, chain, trace, ci>>
             ELSE after
          /\ UNCHANGED <<result, panicMsg, fail>>
       \/ /\ \E e \in Errs : Panic("should check if raw mode is enabled", "query", e, <<>>)
          /\ UNCHANGED ci
    /\ UNCHANGED <<slide, other, keys, raw, input, buf, term, chars, sleeps, slept, startLen, lastRead>>

\* Mutant of DisableExpect: the call leaves raw mode as the action found it.
DisableExpect_keeps(after) ==
    /\ \/ /\ raw' = raw
          /\ after
          /\ UNCHANGED <<result, panicMsg, fail>>
       \/ /\ \E e \in Errs : Panic("raw mode should disable", "disable", e, <<>>)
          /\ UNCHANGED <<raw, ci>>
    /\ UNCHANGED <<slide, other, keys, input, buf, term, chars, sleeps, slept, startLen, lastRead>>

\* disable_raw_mode().expect("raw mode should disable")
DisableExpect(after) ==
    /\ \/ /\ raw' = FALSE
          /\ after
          /\ UNCHANGED <<result, panicMsg, fail>>
       \/ /\ \E e \in Errs : Panic("raw mode should disable", "disable", e, <<>>)
          /\ UNCHANGED <<raw, ci>>
    /\ UNCHANGED <<slide, other, keys, input, buf, term, chars, sleeps, slept, startLen, lastRead>>

\* for char in <chars> { ..: the loop is entered, or Ok(()) at once
EnterLoop(cs) ==
    /\ chars' = cs
    /\ sleeps' = <<>>
    /\ startLen' = Len(Written)
    /\ IF cs = <<>>
       THEN /\ ReturnWith(Ok, <<StartEv>>)
            /\ UNCHANGED ci
       ELSE /\ ci' = 1
            /\ pc' = "write"
            /\ trace' = Append(trace, StartEv)
            /\ UNCHANGED <<idx, chain>>
    /\ UNCHANGED <<slide, other, keys, raw, input, buf, term, result, panicMsg, slept, fail, lastRead>>

\* A write of the character loop, `?` on its result.
WriteChar(out) ==
    /\ \/ /\ SinkWrite(out)
          /\ pc' = "flush"
          /\ UNCHANGED <<idx, chain, trace, fail>>
       \/ /\ \E e \in Errs : WriteFails(e, <<>>)
          /\ UNCHANGED <<buf, term>>
    /\ UNCHANGED <<slide, other, keys, raw, input, chars, ci, result, panicMsg, sleeps, slept, startLen, lastRead>>

\* ------------------------------------------------------ TypewriterPrint
TypewriterPrint_chars ==
    /\ Queued("TypewriterPrint")
    /\ EnterLoop(TypewriterPrintChars(Cur))

\* f.write_char(char)?
TypewriterPrint_write ==
    /\ In("TypewriterPrint", "write")
    /\ WriteChar(<<chars[ci]>>)

TypewriterPrint_flush ==
    /\ In("TypewriterPrint", "flush")
    /\ FlushExpect(<<>>, "query1")
    /\ UNCHANGED <<sleeps, startLen>>

TypewriterPrint_query1 ==
    /\ In("TypewriterPrint", "query1")
    /\ RawQueryBefore

TypewriterPrint_enable ==
    /\ In("TypewriterPrint", "enable")
    /\ EnableExpect

TypewriterPrint_sleep ==
    /\ In("TypewriterPrint", "block")
    /\ Sleep(Cur.dur)

TypewriterPrint_query2 ==
    /\ In("TypewriterPrint", "query2")
    /\ RawQueryAfter(NextChar)

TypewriterPrint_disable ==
    /\ In("TypewriterPrint", "disable")
    /\ DisableExpect(NextChar)

\* ----------------------------------------- TypewriterPrintStyledContent
TypewriterPrintStyledContent_chars ==
    /\ Queued("TypewriterPrintStyledContent")
    /\ EnterLoop(TypewriterPrintStyledContentChars(Cur))

\* PrintStyledContent(char.stylize()).write_ansi(f)?
TypewriterPrintStyledContent_write ==
    /\ In("TypewriterPrintStyledContent", "write")
    /\ WriteChar(StyledCharOutput(chars[ci]))

TypewriterPrintStyledContent_flush ==
    /\ In("TypewriterPrintStyledContent", "flush")
    /\ FlushExpect(<<>>, "query1")
    /\ UNCHANGED <<sleeps, startLen>>

TypewriterPrintStyledContent_query1 ==
    /\ In("TypewriterPrintStyledContent", "query1")
    /\ RawQueryBefore

TypewriterPrintStyledContent_enable ==
    /\ In("TypewriterPrintStyledContent", "enable")
    /\ EnableExpect

TypewriterPrintStyledContent_sleep ==
    /\ In("TypewriterPrintStyledContent", "block")
    /\ Sleep(Cur.dur)

TypewriterPrintStyledContent_query2 ==
    /\ In("TypewriterPrintStyledContent", "query2")
    /\ RawQueryAfter(NextChar)

TypewriterPrintStyledContent_disable ==
    /\ In("TypewriterPrintStyledContent", "disable")
    /\ DisableExpect(NextChar)

\* --------------------------------------------------- WaitForInteraction
WaitForInteraction_flush ==
    /\ Queued("WaitForInteraction")
    /\ FlushExpect(<<StartEv>>, "query1")
    /\ sleeps' = <<>>
    /\ startLen' = Len(Written)

WaitForInteraction_query1 ==
    /\ In("WaitForInteraction", "query1")
    /\ RawQueryBefore

WaitForInteraction_enable ==
    /\ In("WaitForInteraction", "enable")
    /\ EnableExpect

\* Mutant of WaitForInteraction_read: a failed read disables raw mode before
\* it panics.
WaitForInteraction_read_guarded ==
    /\ In("WaitForInteraction", "block")
    /\ \/ /\ input # <<>>
          /\ input' = Tail(input)
          /\ lastRead' = Head(input)
          /\ keys' = IF Qualifying(Head(input)) THEN keys + 1 ELSE keys
          /\ pc' = IF BreaksLoop(Head(input)) THEN "query2" ELSE "block"
          /\ UNCHANGED <<idx, chain, result, panicMsg, fail, trace, raw>>
       \/ /\ \E e \in Errs : Panic("should read event", "read", e, <<>>)
          /\ raw' = FALSE
          /\ UNCHANGED <<input, lastRead, keys>>
    /\ UNCHANGED <<slide, other, buf, term, chars, ci, sleeps, slept, startLen>>

\* Mutant of WaitForInteraction_read: leaving the loop discards the events
\* still pending.
WaitForInteraction_read_drains ==
    /\ In("WaitForInteraction", "block")
    /\ \/ /\ input # <<>>
          /\ input' = IF BreaksLoop(Head(input)) THEN <<>> ELSE Tail(input)
          /\ lastRead' = Head(input)
          /\ keys' = IF Qualifying(Head(input)) THEN keys + 1 ELSE keys
          /\ pc' = IF BreaksLoop(Head(input)) THEN "query2" ELSE "block"
          /\ UNCHANGED <<idx, chain, result, panicMsg, fail, trace>>
       \/ /\ \E e \in Errs : Panic("should read event", "read", e, <<>>)
          /\ UNCHANGED <<input, lastRead, keys>>
    /\ UNCHANGED <<slide, other, raw, buf, term, chars, ci, sleeps, slept,
                   startLen>>

\* Mutant of WaitForInteraction_read: a read with no event pending times out
\* and ends the loop.
WaitForInteraction_read_times_out ==
    /\ In("WaitForInteraction", "block")
    /\ \/ /\ input # <<>>
          /\ input' = Tail(input)
          /\ lastRead' = Head(input)
          /\ keys' = IF Qualifying(Head(input)) THEN keys + 1 ELSE keys
          /\ pc' = IF BreaksLoop(Head(input)) THEN "query2" ELSE "block"
          /\ UNCHANGED <<idx, chain, result, panicMsg, fail, trace>>
       \/ /\ input = <<>>
          /\ pc' = "query2"
          /\ UNCHANGED <<idx, chain, result, panicMsg, fail, trace, input,
                         lastRead, keys>>
       \/ /\ \E e \in Errs : Panic("should read event", "read", e, <<>>)
          /\ UNCHANGED <<input, lastRead, keys>>
    /\ UNCHANGED <<slide, other, raw, buf, term, chars, ci, sleeps, slept,
                   startLen>>

\* loop { if let Event::Key(key) = event::read().expect("should read event")
\*        { if let <qualifying code> = key.code { break; } } }
\* One call of event::read(): it takes the oldest pending event (and blocks
\* while there is none), or fails.
WaitForInteraction_read ==
    /\ In("WaitForInteraction", "block")
    /\ \/ /\ input # <<>>
          /\ input' = Tail(input)
          /\ lastRead' = Head(input)
          /\ keys' = IF Qualifying(Head(input)) THEN keys + 1 ELSE keys
          /\ pc' = IF BreaksLoop(Head(input)) THEN "query2" ELSE "block"
          /\ UNCHANGED <<idx, chain, result, panicMsg, fail, trace>>
       \/ /\ \E e \in Errs : Panic("should read event", "read", e, <<>>)
          /\ UNCHANGED <<input, lastRead, keys>>
    /\ UNCHANGED <<slide, other, raw, buf, term, chars, ci, sleeps, slept,
                   startLen>>

WaitForInteraction_query2 ==
    /\ In("WaitForInteraction", "query2")
    /\ RawQueryAfter(Done)

WaitForInteraction_disable ==
    /\ In("WaitForInteraction", "disable")
    /\ DisableExpect(Done)

\* -------------------------------------------------------------- WaitFor
\* Mutant of WaitFor_flush: the wait starts without flushing.
WaitFor_no_flush ==
    /\ Queued("WaitFor")
    /\ pc' = "query1"
    /\ trace' = Append(trace, StartEv)
    /\ sleeps' = <<>>
    /\ startLen' = Len(Written)
    /\ UNCHANGED <<slide, other, keys, raw, input, buf, term, idx, chars, ci, chain, result,
                   panicMsg, slept, fail, lastRead>>

WaitFor_flush ==
    /\ Queued("WaitFor")
    /\ FlushExpect(<<StartEv>>, "query1")
    /\ sleeps' = <<>>
    /\ startLen' = Len(Written)

WaitFor_query1 ==
    /\ In("WaitFor", "query1")
    /\ RawQueryBefore

WaitFor_enable ==
    /\ In("WaitFor", "enable")
    /\ EnableExpect

WaitFor_sleep ==
    /\ In("WaitFor", "block")
    /\ Sleep(Cur.dur)

WaitFor_query2 ==
    /\ In("WaitFor", "query2")
    /\ RawQueryAfter(Done)

WaitFor_disable ==
    /\ In("WaitFor", "disable")
    /\ DisableExpect(Done)

\* ------------------------------------------------------------- execute!
\* A link of the chain reached with an Err: and_then does not call the
\* closure, the command is neither built nor rendered.
Queue_skip ==
    /\ pc = "queue"
    /\ idx <= Len(Cmds)
    /\ chain # Ok
    /\ idx' = idx + 1
    /\ UNCHANGED <<slide, other, keys, raw, input, buf, term, pc, chars, ci, chain, result,
                   panicMsg, trace, sleeps, slept, startLen, fail, lastRead>>

\* .and_then(|()| flush) after the last link: the value of slide!.
Execute_flush ==
    /\ pc = "queue"
    /\ idx = Len(Cmds) + 1
    /\ pc' = "returned"
    /\ IF chain = Ok
       THEN \/ /\ SinkFlush
               /\ result' = Ok
               /\ UNCHANGED fail
            \/ /\ \E e \in Errs :
                    /\ result' = Err(e)
                    /\ fail' = [at |-> idx, call |-> "flush", err |-> e]
               /\ UNCHANGED <<buf, term>>
       ELSE /\ result' = chain
            /\ UNCHANGED <<buf, term, fail>>
    /\ UNCHANGED <<slide, other, keys, raw, input, idx, chars, ci, chain, panicMsg, trace,
                   sleeps, slept, startLen, lastRead>>

\* ------------------------------------------------- a second invocation
\* A second thread calls slide!() on the same terminal while, before or after
\* the first one runs: execute!(stdout(), Clear(ClearType::All),
\* WaitForInteraction). It shares the raw-mode flag, standard output and the
\* input events with the first; other.pc is its position.
Running == pc \notin {"returned", "panicked"}

OtherRunning == other.pc \notin {"idle", "returned", "panicked"}

\* Where the first invocation is: not yet begun, running, or ended.
MainPhase ==
    IF ~Running THEN "done" ELSE IF trace = <<>> THEN "fresh" ELSE "running"

MainVars ==
    <<slide, idx, pc, chars, ci, chain, result, panicMsg, trace, sleeps, slept,
      startLen, fail, lastRead, keys>>

OtherAt(at) == other.pc = at

OtherGoes(to) == other' = [other EXCEPT !.pc = to]

\* The second invocation ends, by returning or by the panic of an expect.
OtherEnds(how) == other' = [other EXCEPT !.pc = how, !.atEnd = MainPhase]

Other_start ==
    /\ OtherAt("idle")
    /\ other' = [other EXCEPT !.pc = "clear", !.atStart = MainPhase]
    /\ UNCHANGED <<MainVars, raw, input, buf, term>>

\* Clear(ClearType::All).write_ansi: an Err skips the wait and the flush.
Other_clear ==
    /\ OtherAt("clear")
    /\ \/ /\ SinkWrite(ClearSeq)
          /\ OtherGoes("flush")
       \/ /\ OtherEnds("returned")
          /\ UNCHANGED <<buf, term>>
    /\ UNCHANGED <<MainVars, raw, input>>

Other_flush ==
    /\ OtherAt("flush")
    /\ \/ /\ SinkFlush
          /\ OtherGoes("query1")
       \/ /\ OtherEnds("panicked")
          /\ UNCHANGED <<buf, term>>
    /\ UNCHANGED <<MainVars, raw, input>>

Other_query1 ==
    /\ OtherAt("query1")
    /\ \/ OtherGoes(IF raw THEN "block" ELSE "enable")
       \/ OtherEnds("panicked")
    /\ UNCHANGED <<MainVars, raw, input, buf, term>>

\* Mutant of Other_enable: the second invocation goes on without enabling.
Other_enable_skips ==
    /\ OtherAt("enable")
    /\ \/ OtherGoes("block")
       \/ OtherEnds("panicked")
    /\ UNCHANGED <<MainVars, raw, input, buf, term>>

Other_enable ==
    /\ OtherAt("enable")
    /\ \/ /\ raw' = TRUE
          /\ OtherGoes("block")
       \/ /\ OtherEnds("panicked")
          /\ UNCHANGED raw
    /\ UNCHANGED <<MainVars, input, buf, term>>

Other_read ==
    /\ OtherAt("block")
    /\ \/ /\ input # <<>>
          /\ input' = Tail(input)
          /\ OtherGoes(IF BreaksLoop(Head(input)) THEN "query2" ELSE "block")
       \/ /\ OtherEnds("panicked")
          /\ UNCHANGED input
    /\ UNCHANGED <<MainVars, raw, buf, term>>

Other_query2 ==
    /\ OtherAt("query2")
    /\ \/ OtherGoes(IF raw THEN "disable" ELSE "final")
       \/ OtherEnds("panicked")
    /\ UNCHANGED <<MainVars, raw, input, buf, term>>

Other_disable ==
    /\ OtherAt("disable")
    /\ \/ /\ raw' = FALSE
          /\ OtherGoes("final")
       \/ /\ OtherEnds("panicked")
          /\ UNCHANGED raw
    /\ UNCHANGED <<MainVars, input, buf, term>>

\* The final flush of execute!: its result is the value of slide!.
Other_final ==
    /\ OtherAt("final")
    /\ OtherEnds("returned")
    /\ \/ SinkFlush
       \/ UNCHANGED <<buf, term>>
    /\ UNCHANGED <<MainVars, raw, input>>

\* ---------------------------------------------------------- environment

\* The terminal receives an input event.
Arrive ==
    /\ Running \/ OtherRunning
    /\ Len(input) < MaxPending
    /\ \E e \in Events : input' = Append(input, e)
    /\ UNCHANGED <<slide, other, keys, raw, buf, term, idx, pc, chars, ci, chain, result,
                   panicMsg, trace, sleeps, slept, startLen, fail, lastRead>>

Next ==
    \/ Clear_write_ansi
    \/ Print_write_ansi
    \/ TypewriterPrint_chars
    \/ TypewriterPrint_write
    \/ TypewriterPrint_flush
    \/ TypewriterPrint_query1
    \/ TypewriterPrint_enable
    \/ TypewriterPrint_sleep
    \/ TypewriterPrint_query2
    \/ TypewriterPrint_disable
    \/ TypewriterPrintStyledContent_chars
    \/ TypewriterPrintStyledContent_write
    \/ TypewriterPrintStyledContent_flush
    \/ TypewriterPrintStyledContent_query1
    \/ TypewriterPrintStyledContent_enable
    \/ TypewriterPrintStyledContent_sleep
    \/ TypewriterPrintStyledContent_query2
    \/ TypewriterPrintStyledContent_disable
    \/ WaitForInteraction_flush
    \/ WaitForInteraction_query1
    \/ WaitForInteraction_enable
    \/ WaitForInteraction_read
    \/ WaitForInteraction_query2
    \/ WaitForInteraction_disable
    \/ WaitFor_flush
    \/ WaitFor_query1
    \/ WaitFor_enable
    \/ WaitFor_sleep
    \/ WaitFor_query2
    \/ WaitFor_disable
    \/ Queue_skip
    \/ Execute_flush
    \/ Arrive

Spec == Init /\ [][Next]_vars

SpecRender == InitRender /\ [][Next]_vars

\* A step of the program itself: every step but the arrival of an event.
Step == Next /\ Len(input') <= Len(input)

\* The thread runs: a call that can return does return and a sleep completes.
\* event::read() blocks while no event is pending, and nothing makes events
\* arrive.
\* The slides are the empty one, every short action alone, and every short
\* action behind a WaitForInteraction.
FairSlides ==
    {<<>>} \cup {<<a>> : a \in ShortActions}
           \cup {<<WaitForInteraction, a>> : a \in ShortActions}

InitFair == InitWith(FairSlides)

SpecFair == InitFair /\ [][Next]_vars /\ WF_vars(Step)

\* Two invocations on one terminal, in any interleaving of their steps; the
\* first runs a slide of at most one action.
InitConc == InitWith(SeqsUpTo(ShortActions, 1))

NextConc ==
    \/ Next
    \/ Other_start
    \/ Other_clear
    \/ Other_flush
    \/ Other_query1
    \/ Other_enable
    \/ Other_read
    \/ Other_query2
    \/ Other_disable
    \/ Other_final

SpecConc == InitConc /\ [][NextConc]_vars

SpecRawOff == InitRawOff /\ [][Next]_vars

SpecRawOn == InitRawOn /\ [][Next]_vars

\* =============================================================== claims
ExpectedCmds == <<ClearAll>> \o slide \o <<WaitForInteraction>>

StartsOf(t) == SelectSeq(t, LAMBDA ev : ev.ev = "start")
StartedCmds == [i \in 1..Len(StartsOf(trace)) |-> StartsOf(trace)[i].cmd]
LastStarted == StartedCmds[Len(StartedCmds)]

\* The latest write_ansi call was of a command of this kind and returned Ok.
Returned(kind) ==
    /\ trace # <<>>
    /\ trace[Len(trace)] = ReturnEv(Ok)
    /\ LastStarted.kind = kind
    /\ pc \in {"queue", "returned"}

\* What the latest command wrote to the sink.
Out == SubSeq(Written, startLen + 1, Len(Written))

C2_Order ==
    /\ \A i \in 1..Len(trace) :
          trace[i].ev = "start" => (i = 1 \/ trace[i - 1].ev = "return")
    /\ fail = NoFail =>
          StartedCmds = SubSeq(ExpectedCmds, 1, Len(StartedCmds))
    /\ (pc = "returned" /\ result = Ok) =>
          /\ StartedCmds = ExpectedCmds
          /\ Len(trace) = 2 * Len(ExpectedCmds)
          /\ \A i \in 1..Len(trace) :
                trace[i].ev = "return" => trace[i].res = Ok

\* A slide of two actions returned success.
C2_Witness ==
    /\ Len(slide) = 2
    /\ pc = "returned"
    /\ result = Ok

\* C3: the read loop of WaitForInteraction is left for the code after it
\* only by reading a key event whose code is Enter, Right or Space; reading
\* any other event removes it from the input and changes nothing else, the
\* render still being in the loop.
C3_ReadLoop ==
    /\ [](In("WaitForInteraction", "query2") \/ In("WaitForInteraction", "disable")
            \/ Returned("WaitForInteraction")
          => Qualifying(lastRead))
    /\ [][In("WaitForInteraction", "block") =>
            IF input # <<>> /\ input' = Tail(input)
            THEN IF Qualifying(Head(input))
                 THEN pc' = "query2"
                 ELSE /\ pc' = "block"
                      /\ UNCHANGED <<slide, other, keys, raw, buf, term, idx, chars, ci, chain,
                                     result, panicMsg, trace, sleeps, slept,
                                     startLen, fail, keys, other>>
            ELSE pc' \in {"block", "panicked"}]_vars

\* The wait is still blocked after it read and discarded an event.
C3_Witness ==
    /\ In("WaitForInteraction", "block")
    /\ lastRead \in Events
    /\ ~Qualifying(lastRead)
    /\ input # <<>>
    /\ ~Qualifying(Head(input))

InternalCalls == {"flush", "query", "enable", "disable", "read"}

ExpectMessage(call) ==
    CASE call = "flush" -> "standard output stream should flush"
      [] call = "query" -> "should check if raw mode is enabled"
      [] call = "enable" -> "raw mode should enable"
      [] call = "disable" -> "raw mode should disable"
      [] call = "read" -> "should read event"

\* A call inside a command failed (the final flush of execute! is outside).
FailedInside(calls) ==
    /\ fail # NoFail
    /\ fail.at <= Len(ExpectedCmds)
    /\ fail.call \in calls

\* C4, as stated: a failed flush, raw-mode query, enable, disable or event
\* read inside an action is returned as the error result; the caller always
\* gets a result value.
C4_Propagates ==
    FailedInside(InternalCalls) =>
        /\ pc # "panicked"
        /\ pc = "returned" => result = Err(fail.err)

\* C4, amended: such a failure is not retried and not returned: the call
\* panics with its expect message and slide! returns nothing; only a failed
\* write to the sink is returned, unchanged, as the error result.
C4_Panics ==
    /\ [](FailedInside(InternalCalls) =>
            /\ pc = "panicked"
            /\ result = NoResult
            /\ panicMsg = ExpectMessage(fail.call))
    /\ [](FailedInside({"write"}) =>
            /\ pc \in {"queue", "returned"}
            /\ chain = Err(fail.err)
            /\ pc = "returned" => result = Err(fail.err))
    /\ [](pc = "panicked" => FailedInside(InternalCalls))
    /\ [][pc = "panicked" => UNCHANGED vars]_vars

\* An event read failed in a WaitForInteraction and the call panicked.
C4_Witness ==
    /\ fail.call = "read"
    /\ pc = "panicked"
    /\ panicMsg = "should read event"

\* C5: a TypewriterPrint(S, I) that ended without a failing call returned
\* Ok, wrote exactly the characters of S in order and slept Len(S) times,
\* each time for I.
C5_TypewriterPrint ==
    /\ Returned("TypewriterPrint") =>
          /\ Out = LastStarted.content
          /\ sleeps = Repeat(LastStarted.dur, Len(LastStarted.content))
    /\ (fail = NoFail /\ pc = "queue" /\ trace # <<>>
          /\ LastStarted.kind = "TypewriterPrint")
       => Returned("TypewriterPrint")

\* A TypewriterPrint over a content of two or more characters returned.
C5_Witness ==
    /\ Returned("TypewriterPrint")
    /\ Len(LastStarted.content) >= 2
    /\ pc = "queue"

\* C6: an empty slide that returned success cleared the screen, made
\* exactly one interaction wait, which read a qualifying key, and wrote
\* nothing else; without a failing call it returns success.
C6_EmptySlide ==
    slide = <<>> =>
        /\ (pc = "returned" /\ result = Ok) =>
              /\ trace = <<[ev |-> "start", cmd |-> ClearAll], ReturnEv(Ok),
                           [ev |-> "start", cmd |-> WaitForInteraction], ReturnEv(Ok)>>
              /\ term = ClearSeq
              /\ buf = <<>>
              /\ Qualifying(lastRead)
        /\ (pc = "returned" /\ fail = NoFail) => result = Ok
        /\ (fail = NoFail /\ Qualifying(lastRead)) =>
              /\ pc \notin {"write", "flush", "query1", "enable", "block"}
              /\ Len(StartedCmds) = 2

\* The empty slide returned success.
C6_Witness ==
    /\ slide = <<>>
    /\ pc = "returned"
    /\ result = Ok

InWait ==
    /\ pc \in {"query1", "enable", "block", "query2", "disable"}
    /\ Cur.kind \in {"WaitForInteraction", "WaitFor"}

\* C7: while a WaitForInteraction or WaitFor waits, everything written
\* before it is on the terminal (nothing is left in the buffer) and nothing
\* more is written until it has returned; a WaitFor returns after one
\* sleep of its duration.
C7_Gate ==
    /\ [](InWait => (buf = <<>> /\ Len(term) = startLen))
    /\ [][InWait => Written' = Written]_vars
    /\ [](Returned("WaitFor") =>
            (sleeps = <<LastStarted.dur>> /\ Out = <<>>))
    /\ [](Returned("WaitForInteraction") => Out = <<>>)

\* A WaitFor placed after a passthrough print is sleeping, the clear and
\* the printed text being on the terminal.
C7_Witness ==
    /\ Len(slide) = 2
    /\ slide[1].kind = "Print"
    /\ In("WaitFor", "block")
    /\ idx = 3
    /\ term = ClearSeq \o slide[1].content
    /\ buf = <<>>

\* What wrapping every character of s in style st writes.
PerCharStyled(st, s) == Flatten([i \in 1..Len(s) |-> StyledToString(st, <<s[i]>>)])

\* C8: TypewriterPrintStyledContent writes every character of the content
\* wrapped in the style of the styled content.
C8_PerCharStyle ==
    Returned("TypewriterPrintStyledContent") =>
        Out = PerCharStyled(LastStarted.style, LastStarted.content)

\* C9: what TypewriterPrintStyledContent wrote, its style sequences
\* stripped, is what TypewriterPrint writes for the same content.
C9_StrippedStream ==
    Returned("TypewriterPrintStyledContent") =>
        StripStyle(Out) =
            TypewriterPrintChars(TypewriterPrint(LastStarted.content, LastStarted.dur))

\* A bold content of two or more characters was written.
C9_Witness ==
    /\ Returned("TypewriterPrintStyledContent")
    /\ LastStarted.style = "bold"
    /\ Len(LastStarted.content) >= 2

\* C10: TypewriterPrintStyledContent sleeps once per character of the
\* content, each time for the interval, and not otherwise.
C10_StyledPacing ==
    Returned("TypewriterPrintStyledContent") =>
        sleeps = Repeat(LastStarted.dur, Len(LastStarted.content))

\* The runner is suspended: in the sleep of a paced command or of WaitFor,
\* or in the read loop of WaitForInteraction.
Suspended == pc = "block"

\* C11: whenever the runner is suspended (a per-character sleep, the sleep
\* of WaitFor, the blocking read of WaitForInteraction, also after events
\* were discarded) raw mode is enabled.
C11_RawWhileSuspended == Suspended => raw

\* The read loop is blocked again after it discarded an event, raw mode on,
\* in a wait the slide named itself.
C11_Witness ==
    /\ In("WaitForInteraction", "block")
    /\ idx < Len(ExpectedCmds)
    /\ lastRead \in Events
    /\ ~Qualifying(lastRead)
    /\ raw

\* The runner is about to write to the sink or to flush it: a command is
\* about to be queued or the final flush made, or a character of a paced
\* command is about to be written or flushed.
Writing == pc \in {"queue", "write", "flush"}

\* C12 (under SpecRawOff: raw mode is disabled when slide! is called): raw
\* mode is disabled whenever the runner writes or flushes (the clear, a
\* passthrough command, each character of a paced command, the flushes) and
\* when slide! has returned; it is enabled only from the enable before a
\* sleep or the read loop to the disable after it, or after a panic.
C12_RawOffWhileWriting ==
    /\ Writing => ~raw
    /\ pc = "returned" => ~raw
    /\ raw => pc \in {"block", "query2", "disable", "panicked"}

\* A passthrough print is about to be written after a paced command slept.
C12_Witness ==
    /\ Queued("Print")
    /\ idx = 3
    /\ slide[1].kind = "TypewriterPrint"
    /\ slept > 0
    /\ ~raw

\* C13: in a single invocation enable_raw_mode is never invoked while raw
\* mode is already enabled and disable_raw_mode is never invoked while it is
\* already disabled, in any action and for either initial raw-mode state.
C13_IdempotentToggle ==
    /\ pc = "enable" => ~raw
    /\ pc = "disable" => raw

\* An action queries the raw-mode state while raw mode is already enabled
\* (it was enabled when slide! was called), so the enable is skipped.
C13_Witness ==
    /\ pc = "query1"
    /\ raw
    /\ idx = 2
    /\ Cur.kind \in {"WaitFor", "WaitForInteraction", "TypewriterPrint"}

\* C14 (under SpecRawOff): there is no disable-on-failure path. A failed
\* event read in the read loop, and a failed disable after a sleep of the
\* character loop or after the read loop, happen with raw mode enabled, and
\* raw mode is still enabled when the failure reaches the caller of slide!.
C14_NoDisableOnFailure ==
    FailedInside({"read", "disable"}) => (pc = "panicked" /\ raw)

\* The read loop of an action failed after that action enabled raw mode:
\* slide! has panicked and raw mode is still enabled.
C14_Witness ==
    /\ pc = "panicked"
    /\ fail.call = "read"
    /\ Cmds[fail.at].kind = "WaitForInteraction"
    /\ panicMsg = "should read event"
    /\ raw

\* The same inside the character loop of a paced action.
C14_WitnessCharLoop ==
    /\ pc = "panicked"
    /\ fail.call = "disable"
    /\ Cmds[fail.at].kind = "TypewriterPrint"
    /\ sleeps # <<>>
    /\ raw

RECURSIVE Sum(_)
Sum(seq) == IF seq = <<>> THEN 0 ELSE Head(seq) + Sum(Tail(seq))

\* The least time a command sleeps: its duration for WaitFor, the number of
\* characters of its content times its interval for a paced command.
MinSleepOf(c) ==
    CASE c.kind = "WaitFor" -> c.dur
      [] c.kind \in {"TypewriterPrint", "TypewriterPrintStyledContent"}
             -> Len(c.content) * c.dur
      [] OTHER -> 0

MinSleep(cmds) == Sum([i \in 1..Len(cmds) |-> MinSleepOf(cmds[i])])

\* The trailing wait of the slide has begun.
TrailingWaitBegun == Len(StartedCmds) = Len(ExpectedCmds)

\* C16: when the trailing wait begins, the time slept so far is at least the
\* sum of every WaitFor duration plus, for every paced action, its character
\* count times its interval.
C16_MinimumSleep == TrailingWaitBegun => slept >= MinSleep(slide)

\* WaitFor(50) followed by a one-character paced text at 5: 55 slept when the
\* trailing wait begins.
C16_Witness ==
    /\ TrailingWaitBegun
    /\ slide = <<WaitFor(50), TypewriterPrint(<<"m">>, 5)>>
    /\ MinSleep(slide) = 55
    /\ slept = 55

\* Commands that sleep or read at least once: WaitFor, WaitForInteraction and
\* a paced command over non-empty content.
Suspends(c) ==
    \/ c.kind \in {"WaitFor", "WaitForInteraction"}
    \/ /\ c.kind \in {"TypewriterPrint", "TypewriterPrintStyledContent"}
       /\ c.content # <<>>

\* C18 (under SpecRawOn: raw mode is enabled when slide! is called): when
\* slide! returns success raw mode is disabled, and so it is when a WaitFor, a
\* WaitForInteraction or a paced command over non-empty content has returned
\* Ok: the caller's prior state is not restored.
C18_DisabledOnSuccess ==
    /\ (pc = "returned" /\ result = Ok) => ~raw
    /\ (trace # <<>> /\ trace[Len(trace)] = ReturnEv(Ok) /\ Suspends(LastStarted))
           => ~raw

\* slide!() of the empty slide was called with raw mode enabled and returned
\* success with raw mode disabled.
C18_Witness ==
    /\ pc = "returned"
    /\ result = Ok
    /\ slide = <<>>
    /\ keys = 1
    /\ ~raw

\* The number of WaitForInteraction commands among cmds.
InteractionWaits(cmds) ==
    Len(SelectSeq(cmds, LAMBDA c : c.kind = "WaitForInteraction"))

\* The interaction waits that have returned Ok so far.
InteractionWaitsDone ==
    Len(SelectSeq([i \in 1..Len(trace) - 1 |-> <<trace[i], trace[i + 1]>>],
                  LAMBDA p : /\ p[1] = [ev |-> "start", cmd |-> WaitForInteraction]
                             /\ p[2] = ReturnEv(Ok)))

\* One step of the program that takes an event: a read of the loop of
\* WaitForInteraction takes the oldest pending event, and leaves the loop
\* exactly when that event is a qualifying key.
ReadsHead ==
    /\ In("WaitForInteraction", "block")
    /\ input # <<>>
    /\ input' = Tail(input)
    /\ lastRead' = Head(input)
    /\ keys' = keys + (IF Qualifying(Head(input)) THEN 1 ELSE 0)
    /\ pc' = "query2" <=> Qualifying(Head(input))
    /\ pc' = "block" <=> ~Qualifying(Head(input))

\* An event arrives at the terminal: it is added behind the pending ones.
Arrives == pc' = pc /\ keys' = keys /\ \E e \in Events : input' = Append(input, e)

\* C19: the pending input and the count of qualifying keys taken change only
\* by a read of a WaitForInteraction loop, which takes the oldest event and
\* stops at the first qualifying key, or by an arrival; every other step
\* (passthrough, paced, WaitFor) leaves them unchanged. A WaitForInteraction
\* that has returned has taken exactly one qualifying key, so a slide that
\* returns success with m interaction waits has taken exactly m.
C19_OnlyInteractionConsumes ==
    /\ [][input' # input \/ keys' # keys => ReadsHead \/ Arrives]_vars
    /\ [](keys \in {InteractionWaitsDone, InteractionWaitsDone + 1})
    /\ [](keys = InteractionWaitsDone + 1 => pc \in {"query2", "disable", "panicked"})
    /\ []((pc = "returned" /\ result = Ok) => keys = InteractionWaits(ExpectedCmds))

\* A slide with two interaction waits has returned after taking two
\* qualifying keys; a third one, which arrived meanwhile, is still pending.
C19_Witness ==
    /\ pc = "returned"
    /\ result = Ok
    /\ InteractionWaits(ExpectedCmds) = 2
    /\ keys = 2
    /\ input # <<>>
    /\ Qualifying(Head(input))

\* The runner is in the read loop of a WaitForInteraction.
InReadLoop == In("WaitForInteraction", "block")

\* No timeout and no cancel path: the read loop is left only by reading a
\* qualifying key, or by the panic of a failed read.
OnlyAKeyEndsTheLoop ==
    [][(InReadLoop /\ pc' # "block")
          => \/ /\ input # <<>>
                /\ Qualifying(Head(input))
                /\ input' = Tail(input)
                /\ pc' = "query2"
             \/ pc' = "panicked"]_vars

\* A qualifying key that is read ends the loop, and slide! returns success
\* only after each of its interaction waits has read one.
ReturnsIffKeys ==
    /\ (InReadLoop /\ input # <<>> /\ Qualifying(Head(input))) ~> ~InReadLoop
    /\ []((pc = "returned" /\ result = Ok) => keys = InteractionWaits(ExpectedCmds))
    /\ [](keys = InteractionWaits(ExpectedCmds) => <>(pc \in {"returned", "panicked"}))

\* C15, as stated (under SpecFair): every slide reaches its trailing wait when
\* no step fails; slide! then returns if and only if each WaitForInteraction
\* reads a qualifying key; there is no timeout or cancel path.
C15_AlwaysReachesTrailingWait ==
    /\ <>(fail # NoFail \/ TrailingWaitBegun)
    /\ ReturnsIffKeys
    /\ OnlyAKeyEndsTheLoop

\* C15, amended (under SpecFair): when no step fails, the runner reaches the
\* trailing wait unless it stays for ever in the read loop of an earlier
\* WaitForInteraction of the slide; a slide without WaitForInteraction always
\* reaches it. slide! returns if and only if each WaitForInteraction reads a
\* qualifying key; there is no timeout or cancel path.
C15_ReachesNextWait ==
    /\ \/ <>(fail # NoFail \/ TrailingWaitBegun)
       \/ <>[](InReadLoop /\ ~TrailingWaitBegun)
    /\ InteractionWaits(slide) = 0 => <>(fail # NoFail \/ TrailingWaitBegun)
    /\ ReturnsIffKeys
    /\ OnlyAKeyEndsTheLoop

\* The runner waits in the read loop of a WaitForInteraction of the slide,
\* before the trailing wait; the last event read was not a qualifying key.
C15_Witness ==
    /\ InReadLoop
    /\ ~TrailingWaitBegun
    /\ fail = NoFail
    /\ lastRead \in Events
    /\ ~Qualifying(lastRead)
    /\ input = <<>>

\* The second invocation is blocked in its event read.
OtherSuspended == other.pc = "block"

\* The two invocations did not overlap: the second one has not been called,
\* or it was called after the first had ended, or it began and ended (or has
\* run so far) before the first did anything.
Serialized ==
    \/ other.pc = "idle"
    \/ other.atStart = "done"
    \/ /\ other.atStart = "fresh"
       /\ IF OtherRunning THEN trace = <<>> ELSE other.atEnd = "fresh"

\* C17 (under SpecConc): while the two invocations are serialized, raw mode
\* is enabled whenever either of them is suspended in a sleep or in its event
\* read. (When they overlap the invariant fails: C17_Witness.)
C17_SerializedKeepsRaw ==
    Serialized => /\ Suspended => raw
                  /\ OtherSuspended => raw

\* The race: the first invocation is sleeping or blocked in its event read
\* and raw mode is disabled, because the second invocation, which ran
\* meanwhile, has disabled it at the end of its own wait.
C17_Witness ==
    /\ Suspended
    /\ ~raw
    /\ fail = NoFail
    /\ other.pc \in {"final", "returned"}
    /\ other.atStart = "running"

====
